---------------------------- MODULE Spec2Model ----------------------------
(***************************************************************************)
(* Block-sparse mask preprocessing (sparsify_mask) and the index maps of   *)
(* the masked matmul kernel, docs/pallas/tpu/sparse.ipynb.                  *)
(*                                                                          *)
(* A 0/1 array is represented by its shape and the set of the positions    *)
(* that hold a non-zero value: [shape |-> <<rows, cols>>, ones |-> {...}]. *)
(* Positions are 0-based, as in the source.  The mask is an integer array  *)
(* (the notebook builds it with dtype int32), so the four grids derived    *)
(* from it hold integers.                                                   *)
(***************************************************************************)
EXTENDS Integers, Sequences, FiniteSets, TLC

VARIABLES
  mask,                \* input: the dense mask
  block_shape,         \* input: <<bm, bn>>
  i, j,                \* loop variables of sparsify_mask (the iteration to run next)
  block_mask,          \* ActiveFlag grid
  mask_types_finder,   \* list of str(mask_block) keys
  mask_data,           \* list of distinct non-zero blocks (DedupTable)
  next_mask_type_idx,  \* carried content index
  next_i, next_j,      \* carried next-active coordinate
  prefetch_mask,       \* ContentIndex grid
  prefetch_i,          \* NextActiveRow grid
  prefetch_j,          \* NextActiveCol grid
  pc,                  \* "loop", "stack", "done", "error", "kernel";
                       \* "dsd", "dsd_kernel", "dsd_done"
  num_k,               \* pl.num_programs(2) of the masked matmul grid
  pid,                 \* <<program_id(0), program_id(1), program_id(2)>>
  x_idx, y_idx, mask_idx, o_idx,  \* block indices the BlockSpec index maps return
  accum_scratch,       \* VMEM scratch accumulator of sparse_mask_matmul
  o_ref,               \* output block of sparse_mask_matmul at o_idx
  dsd_M, dsd_N,        \* M // blk_M and N // blk_N of the sparse @ dense matmul
  indices_i,           \* block row indices of the non-zero blocks of X
  indices_k,           \* block column indices of the non-zero blocks of X
  dsd_pid,             \* <<program_id(0), program_id(1)>> = <<j, blk_idx>>
  dsd_accum,           \* accum_scratch of dsd_kernel
  dsd_o_ref,           \* o_ref of dsd_kernel: the output block buffer
  dsd_o_idx,           \* block index of the output block held in dsd_o_ref
  result,              \* the output array, aliased to the zeros input
  zeroed,              \* the last kernel step zeroed the accumulator
  wrote                \* the last kernel step wrote the accumulator to o_ref

vars == <<mask, block_shape, i, j, block_mask, mask_types_finder, mask_data,
          next_mask_type_idx, next_i, next_j, prefetch_mask, prefetch_i,
          prefetch_j, pc, num_k, pid, x_idx, y_idx, mask_idx, o_idx,
          accum_scratch, o_ref,
          dsd_M, dsd_N, indices_i, indices_k, dsd_pid, dsd_accum, dsd_o_ref,
          dsd_o_idx, result, zeroed, wrote>>

\* the state of the sparse @ dense matmul
dsd_vars == <<dsd_M, dsd_N, indices_i, indices_k, dsd_pid, dsd_accum, dsd_o_ref,
              dsd_o_idx, result, zeroed, wrote>>

(***************************************************************************)
(* Bounds of the model.                                                     *)
(***************************************************************************)
MaxCells == 8     \* small masks have at most this many elements
MaxBlk == 2       \* block rows and block columns range over 1..MaxBlk
MaxK == 2         \* number of k blocks of the matmul grid ranges over 1..MaxK

(***************************************************************************)
(* numpy print options that str(array) uses: an array with more than       *)
(* PrintThreshold elements is summarised, every axis longer than           *)
(* 2*EdgeItems showing only its first and last EdgeItems entries.          *)
(***************************************************************************)
PrintThreshold == 1000
EdgeItems == 3

Min(a, b) == IF a < b THEN a ELSE b

Rows(a) == a.shape[1]
Cols(a) == a.shape[2]

\* M // bm and N // bn
GridRows(m, bs) == Rows(m) \div bs[1]
GridCols(m, bs) == Cols(m) \div bs[2]

\* jnp.zeros((R, C)) and jnp.zeros_like of it
Zeros(R, C) == [r \in 0..(R - 1) |-> [c \in 0..(C - 1) |-> 0]]

\* faulty variant: the initial next_i without the "- 1"
InitNextI_offbyone(m, bs) == GridRows(m, bs)
\* next_i = (M // bm) - 1, next_j = (N // bn) - 1
InitNextI(m, bs) == GridRows(m, bs) - 1
\* faulty variant: the initial next_j is 0
InitNextJ_zero(m, bs) == 0
InitNextJ(m, bs) == GridCols(m, bs) - 1

\* a[r0:r1, c0:c1]: a Python slice clamps its ends to the array
Slice(a, r0, r1, c0, c1) ==
  LET lo_r == Min(r0, Rows(a))
      hi_r == Min(r1, Rows(a))
      lo_c == Min(c0, Cols(a))
      hi_c == Min(c1, Cols(a))
  IN  [shape |-> <<hi_r - lo_r, hi_c - lo_c>>,
       ones  |-> {<<p[1] - lo_r, p[2] - lo_c>> :
                    p \in {q \in a.ones : /\ lo_r <= q[1] /\ q[1] < hi_r
                                          /\ lo_c <= q[2] /\ q[2] < hi_c}}]

\* mask[i * bm :(i + 1) * bm, j * bn :(j + 1) * bn]
MaskBlock(m, bs, ti, tj) ==
  Slice(m, ti * bs[1], (ti + 1) * bs[1], tj * bs[2], (tj + 1) * bs[2])

\* faulty variant: jnp.all in place of jnp.any
AnyNonzero_all(b) ==
  /\ Rows(b) * Cols(b) > 0
  /\ Cardinality(b.ones) = Rows(b) * Cols(b)
\* faulty variant: only the first element of the block is tested
AnyNonzero_firstonly(b) == <<0, 0>> \in b.ones
\* jnp.any(mask_block)
AnyNonzero(b) == b.ones # {}

\* .set(is_nonzero) stores the boolean in an integer array
AsInt(flag) == IF flag THEN 1 ELSE 0

(***************************************************************************)
(* str(mask_block): the text numpy prints.  It is determined by which axes *)
(* are elided, by how many entries each axis shows and by the values       *)
(* shown.                                                                   *)
(***************************************************************************)
Summarised(b) == Rows(b) * Cols(b) > PrintThreshold
Elided(n, s) == s /\ n > 2 * EdgeItems
\* position at which entry x of an axis of length n is printed; -1: not printed
Shown(x, n, s) ==
  IF ~Elided(n, s) THEN x
  ELSE IF x < EdgeItems THEN x
  ELSE IF x >= n - EdgeItems THEN EdgeItems + 1 + (x - (n - EdgeItems))
  ELSE -1
ShownLen(n, s) == IF Elided(n, s) THEN 2 * EdgeItems + 1 ELSE n
Str(b) ==
  LET s == Summarised(b)
  IN  [elided |-> <<Elided(Rows(b), s), Elided(Cols(b), s)>>,
       shape  |-> <<ShownLen(Rows(b), s), ShownLen(Cols(b), s)>>,
       ones   |-> {<<Shown(p[1], Rows(b), s), Shown(p[2], Cols(b), s)>> :
                     p \in {q \in b.ones : /\ Shown(q[1], Rows(b), s) # -1
                                           /\ Shown(q[2], Cols(b), s) # -1}}]

\* faulty variant: a lookup that never finds the key
Index_never(finder, key) == -1
\* list.index(key), 0-based; -1 stands for the ValueError
Index(finder, key) ==
  IF \E n \in 1..Len(finder) : finder[n] = key
  THEN (CHOOSE n \in 1..Len(finder) :
          /\ finder[n] = key
          /\ \A n2 \in 1..(n - 1) : finder[n2] # key) - 1
  ELSE -1

\* faulty variant: the length is taken after the append
TypeIndex_afterappend(finder, key) ==
  IF Index(finder, key) # -1 THEN Index(finder, key) ELSE Len(finder) + 1
\* try: type_index = finder.index(key)  except ValueError: len(finder)
TypeIndex(finder, key) ==
  IF Index(finder, key) # -1 THEN Index(finder, key) ELSE Len(finder)

\* faulty variant: the update goes to [tj, ti]
AtSet_transposed(arr, ti, tj, v) ==
  IF tj \in DOMAIN arr /\ ti \in DOMAIN arr[tj]
  THEN [arr EXCEPT ![tj][ti] = v]
  ELSE arr
\* faulty variant: an out-of-bounds index is clamped into the array
AtSet_clamped(arr, ti, tj, v) ==
  IF DOMAIN arr = {} \/ DOMAIN arr[0] = {}
  THEN arr
  ELSE LET ci == Min(ti, Cardinality(DOMAIN arr) - 1)
           cj == Min(tj, Cardinality(DOMAIN arr[0]) - 1)
       IN  [arr EXCEPT ![ci][cj] = v]
\* arr.at[ti, tj].set(v): an update at an out-of-bounds index is dropped
AtSet(arr, ti, tj, v) ==
  IF ti \in DOMAIN arr /\ tj \in DOMAIN arr[ti]
  THEN [arr EXCEPT ![ti][tj] = v]
  ELSE arr

\* jnp.stack(mask_data) needs at least one array, all of one shape
CanStack(data) ==
  /\ Len(data) > 0
  /\ \A n \in 1..Len(data) : data[n].shape = data[1].shape

(***************************************************************************)
(* Inputs.                                                                  *)
(***************************************************************************)
Cells(M, N) == (0..(M - 1)) \X (0..(N - 1))

SmallMasks ==
  UNION {{[shape |-> <<sh[1], sh[2]>>, ones |-> o] : o \in SUBSET Cells(sh[1], sh[2])} :
           sh \in {s \in (1..MaxCells) \X (1..MaxCells) : s[1] * s[2] <= MaxCells}}

SmallInputs == SmallMasks \X ((1..MaxBlk) \X (1..MaxBlk))

\* masks of two blocks that are each large enough for str to summarise them
BigCols == PrintThreshold + 1
ProbeCols == {0, EdgeItems, EdgeItems + 1, BigCols - 1,
              BigCols, BigCols + EdgeItems, BigCols + EdgeItems + 1, 2 * BigCols - 1}
BigInputs ==
  {<<[shape |-> <<1, 2 * BigCols>>, ones |-> {<<0, c>> : c \in cs}], <<1, BigCols>>>> :
     cs \in SUBSET ProbeCols}

\* masks of three large blocks, each block empty or with a single one in
\* a printed column (0) or in a column that str elides
BigOnes(cs) == {<<0, n * BigCols + cs[n + 1]>> : n \in {m \in 0..2 : cs[m + 1] # -1}}
BigInputs3 ==
  {<<[shape |-> <<1, 3 * BigCols>>, ones |-> BigOnes(cs)], <<1, BigCols>>>> :
     cs \in [1..3 -> {-1, 0, EdgeItems, EdgeItems + 1}]}

\* the two 4x4 masks of the worked scenarios, block shape (2, 2)
ScenarioInputs ==
  {<<[shape |-> <<4, 4>>, ones |-> {<<0, 0>>, <<2, 2>>, <<2, 3>>, <<3, 2>>, <<3, 3>>}],
     <<2, 2>>>>,
   <<[shape |-> <<4, 4>>, ones |-> {}], <<2, 2>>>>}

Inputs == SmallInputs \cup BigInputs \cup BigInputs3 \cup ScenarioInputs

\* no sparse @ dense matmul is running
DsdIdle ==
  /\ dsd_M = 0
  /\ dsd_N = 0
  /\ indices_i = << >>
  /\ indices_k = << >>
  /\ dsd_pid = <<0, 0>>
  /\ dsd_accum = 0
  /\ dsd_o_ref = 0
  /\ dsd_o_idx = <<0, 0>>
  /\ result = << >>
  /\ zeroed = FALSE
  /\ wrote = FALSE

(***************************************************************************)
(* sparsify_mask                                                            *)
(***************************************************************************)
Init ==
  /\ \E inp \in Inputs :
       /\ mask = inp[1]
       /\ block_shape = inp[2]
  /\ block_mask = Zeros(GridRows(mask, block_shape), GridCols(mask, block_shape))
  /\ mask_types_finder = << >>
  /\ mask_data = << >>
  /\ next_mask_type_idx = 0
  /\ prefetch_mask = Zeros(GridRows(mask, block_shape), GridCols(mask, block_shape))
  /\ next_i = InitNextI(mask, block_shape)
  /\ next_j = InitNextJ(mask, block_shape)
  /\ prefetch_i = Zeros(GridRows(mask, block_shape), GridCols(mask, block_shape))
  /\ prefetch_j = Zeros(GridRows(mask, block_shape), GridCols(mask, block_shape))
  /\ i = GridRows(mask, block_shape)
  /\ j = GridCols(mask, block_shape)
  /\ pc = "loop"
  /\ num_k = 0
  /\ pid = <<0, 0, 0>>
  /\ x_idx = <<0, 0>>
  /\ y_idx = <<0, 0>>
  /\ mask_idx = <<0, 0, 0>>
  /\ o_idx = <<0, 0>>
  /\ accum_scratch = Zeros(block_shape[1], block_shape[2])
  /\ o_ref = Zeros(block_shape[1], block_shape[2])
  /\ DsdIdle

\* for i in range(M // bm, -1, -1): for j in range(N // bn, -1, -1)
Advance ==
  IF j > 0 THEN /\ j' = j - 1
                /\ i' = i
                /\ pc' = "loop"
  ELSE IF i > 0 THEN /\ j' = GridCols(mask, block_shape)
                     /\ i' = i - 1
                     /\ pc' = "loop"
  ELSE /\ j' = j
       /\ i' = i
       /\ pc' = "stack"

\* faulty variant: next_i = j, next_j = i
NextAfterNonzero_swapped(ti, tj) == <<tj, ti>>
\* next_i = i, next_j = j
NextAfterNonzero(ti, tj) == <<ti, tj>>

\* loop body, branch "if is_nonzero"
IterNonzero ==
  /\ pc = "loop"
  /\ LET mask_block == MaskBlock(mask, block_shape, i, j)
         type_index == TypeIndex(mask_types_finder, Str(mask_block))
         nxt == NextAfterNonzero(i, j)
     IN  /\ AnyNonzero(mask_block)
         /\ IF Index(mask_types_finder, Str(mask_block)) = -1
            THEN /\ mask_types_finder' = Append(mask_types_finder, Str(mask_block))
                 /\ mask_data' = Append(mask_data, mask_block)
            ELSE UNCHANGED <<mask_types_finder, mask_data>>
         /\ next_mask_type_idx' = type_index
         /\ next_i' = nxt[1]
         /\ next_j' = nxt[2]
         /\ block_mask' = AtSet(block_mask, i, j, AsInt(TRUE))
         /\ prefetch_mask' = AtSet(prefetch_mask, i, j, type_index)
         /\ prefetch_i' = AtSet(prefetch_i, i, j, nxt[1])
         /\ prefetch_j' = AtSet(prefetch_j, i, j, nxt[2])
  /\ Advance
  /\ UNCHANGED <<mask, block_shape, num_k, pid, x_idx, y_idx, mask_idx, o_idx,
                 accum_scratch, o_ref>>
  /\ UNCHANGED dsd_vars

\* loop body, branch "else"
IterZero ==
  /\ pc = "loop"
  /\ ~AnyNonzero(MaskBlock(mask, block_shape, i, j))
  /\ block_mask' = AtSet(block_mask, i, j, AsInt(FALSE))
  /\ prefetch_mask' = AtSet(prefetch_mask, i, j, next_mask_type_idx)
  /\ prefetch_i' = AtSet(prefetch_i, i, j, next_i)
  /\ prefetch_j' = AtSet(prefetch_j, i, j, next_j)
  /\ Advance
  /\ UNCHANGED <<mask, block_shape, mask_types_finder, mask_data,
                 next_mask_type_idx, next_i, next_j,
                 num_k, pid, x_idx, y_idx, mask_idx, o_idx,
                 accum_scratch, o_ref>>
  /\ UNCHANGED dsd_vars

\* return ..., jnp.stack(mask_data)
Return ==
  /\ pc = "stack"
  /\ CanStack(mask_data)
  /\ pc' = "done"
  /\ UNCHANGED <<mask, block_shape, i, j, block_mask, mask_types_finder, mask_data,
                 next_mask_type_idx, next_i, next_j, prefetch_mask, prefetch_i,
                 prefetch_j, num_k, pid, x_idx, y_idx, mask_idx, o_idx,
                 accum_scratch, o_ref>>
  /\ UNCHANGED dsd_vars

\* jnp.stack(mask_data) raises ValueError: sparsify_mask returns nothing
StackError ==
  /\ pc = "stack"
  /\ ~CanStack(mask_data)
  /\ pc' = "error"
  /\ UNCHANGED <<mask, block_shape, i, j, block_mask, mask_types_finder, mask_data,
                 next_mask_type_idx, next_i, next_j, prefetch_mask, prefetch_i,
                 prefetch_j, num_k, pid, x_idx, y_idx, mask_idx, o_idx,
                 accum_scratch, o_ref>>
  /\ UNCHANGED dsd_vars

(***************************************************************************)
(* Index maps of the masked matmul and the walk over its grid              *)
(***************************************************************************)
\* faulty variant: x_map returns the grid row instead of prefetch_i[i, j]
x_map_dense(gi, gj, gk, bmask, pmask, pi, pj) ==
  LET k_fetch == AsInt(bmask[gi][gj] # 0) * gk
  IN  <<gi, k_fetch>>
x_map(gi, gj, gk, bmask, pmask, pi, pj) ==
  LET k_fetch == AsInt(bmask[gi][gj] # 0) * gk
  IN  <<pi[gi][gj], k_fetch>>

y_map(gi, gj, gk, bmask, pmask, pi, pj) ==
  LET k_fetch == AsInt(bmask[gi][gj] # 0) * gk
  IN  <<k_fetch, pj[gi][gj]>>

mask_map(gi, gj, gk, bmask, pmask) == <<pmask[gi][gj], 0, 0>>

o_map(gi, gj, gk) == <<gi, gj>>

Fetch(p) ==
  /\ pid' = p
  /\ x_idx' = x_map(p[1], p[2], p[3], block_mask, prefetch_mask, prefetch_i, prefetch_j)
  /\ y_idx' = y_map(p[1], p[2], p[3], block_mask, prefetch_mask, prefetch_i, prefetch_j)
  /\ mask_idx' = mask_map(p[1], p[2], p[3], block_mask, prefetch_mask)
  /\ o_idx' = o_map(p[1], p[2], p[3])

(***************************************************************************)
(* sparse_mask_matmul.  The K axis is cut into blocks of one column        *)
(* (blk_K = 1), so K = num_k, a block of X is one column of blk_M entries  *)
(* and a block of Y one row of blk_N entries.  Array values are integers.  *)
(***************************************************************************)
\* X = jax.random.normal(jax.random.key(0), (M, K)) and
\* Y = jax.random.normal(jax.random.key(1), (K, N)): two fixed arrays, here
\* with a different value at every position
X(r, k, K) == 1 + r * K + k
Y(k, c, N) == 2 + k * N + c

\* jnp.dot(x_ref[...], y_ref[...]) for the blocks at block indices xi and yi
Dot(xi, yi, m, bs, nk) ==
  [r \in 0..(bs[1] - 1) |->
     [c \in 0..(bs[2] - 1) |->
        X(xi[1] * bs[1] + r, xi[2], nk) * Y(yi[1], yi[2] * bs[2] + c, Cols(m))]]

\* mask_ref[0, ...]: the block of the stacked mask_data at block index mi
MaskRef(data, mi, bs) ==
  [r \in 0..(bs[1] - 1) |->
     [c \in 0..(bs[2] - 1) |->
        IF <<r, c>> \in data[mi[1] + 1].ones THEN 1 ELSE 0]]

\* a + b and a * b, element-wise
Add(a, b) == [r \in DOMAIN a |-> [c \in DOMAIN a[r] |-> a[r][c] + b[r][c]]]
Mul(a, b) == [r \in DOMAIN a |-> [c \in DOMAIN a[r] |-> a[r][c] * b[r][c]]]

\* @pl.when(k == 0): ref[...] = jnp.zeros_like(ref)
ZeroAtFirstK(gk, ref, bs) == IF gk = 0 THEN Zeros(bs[1], bs[2]) ELSE ref

\* the kernel body at grid step p of a grid with nk steps along k
sparse_mask_matmul(p, nk) ==
  LET xi == x_map(p[1], p[2], p[3], block_mask, prefetch_mask, prefetch_i, prefetch_j)
      yi == y_map(p[1], p[2], p[3], block_mask, prefetch_mask, prefetch_i, prefetch_j)
      mi == mask_map(p[1], p[2], p[3], block_mask, prefetch_mask)
      should_compute == block_mask[p[1]][p[2]] # 0
      o0 == ZeroAtFirstK(p[3], o_ref, block_shape)
      a0 == ZeroAtFirstK(p[3], accum_scratch, block_shape)
      a1 == IF should_compute
            THEN Add(a0, Dot(xi, yi, mask, block_shape, nk))
            ELSE a0
  IN  /\ accum_scratch' = a1
      /\ o_ref' = IF should_compute /\ p[3] = nk - 1
                  THEN Mul(MaskRef(mask_data, mi, block_shape), a1)
                  ELSE o0

\* pallas_call over grid (M // blk_M, N // blk_N, K // blk_K): first grid step
Launch ==
  /\ pc = "done"
  /\ GridRows(mask, block_shape) > 0
  /\ GridCols(mask, block_shape) > 0
  /\ \E nk \in 1..MaxK :
       /\ num_k' = nk
       /\ sparse_mask_matmul(<<0, 0, 0>>, nk)
  /\ Fetch(<<0, 0, 0>>)
  /\ pc' = "kernel"
  /\ UNCHANGED <<mask, block_shape, i, j, block_mask, mask_types_finder, mask_data,
                 next_mask_type_idx, next_i, next_j, prefetch_mask, prefetch_i,
                 prefetch_j>>
  /\ UNCHANGED dsd_vars

\* the next grid step, the last grid axis varying fastest
NextPid(p, R, C, nk) ==
  IF p[3] + 1 < nk THEN <<p[1], p[2], p[3] + 1>>
  ELSE IF p[2] + 1 < C THEN <<p[1], p[2] + 1, 0>>
  ELSE <<p[1] + 1, 0, 0>>

GridStep ==
  /\ pc = "kernel"
  /\ LET p == NextPid(pid, GridRows(mask, block_shape), GridCols(mask, block_shape), num_k)
     IN  /\ p[1] < GridRows(mask, block_shape)
         /\ Fetch(p)
         /\ sparse_mask_matmul(p, num_k)
  /\ UNCHANGED <<mask, block_shape, i, j, block_mask, mask_types_finder, mask_data,
                 next_mask_type_idx, next_i, next_j, prefetch_mask, prefetch_i,
                 prefetch_j, pc, num_k>>
  /\ UNCHANGED dsd_vars

Next ==
  \/ IterNonzero
  \/ IterZero
  \/ Return
  \/ StackError
  \/ Launch
  \/ GridStep

Spec == Init /\ [][Next]_vars

(***************************************************************************)
(* Sparse @ dense matmul: generate_block_sparse_mat and dsd_kernel.  Every  *)
(* block is a single element (blk_M = blk_K = blk_N = 1) and array values   *)
(* are integers.  An input without a non-zero block gives a grid without    *)
(* steps and is left out.                                                   *)
(***************************************************************************)
MaxBlockGrid == 2   \* M // blk_M and K // blk_K range over 1..MaxBlockGrid
MaxJ == 2           \* N // blk_N ranges over 1..MaxJ

\* the state of sparsify_mask and the masked matmul
mm_vars == <<mask, block_shape, i, j, block_mask, mask_types_finder, mask_data,
             next_mask_type_idx, next_i, next_j, prefetch_mask, prefetch_i,
             prefetch_j, num_k, pid, x_idx, y_idx, mask_idx, o_idx,
             accum_scratch, o_ref>>

\* no sparsify_mask and no masked matmul is running
MmIdle ==
  /\ mask = [shape |-> <<0, 0>>, ones |-> {}]
  /\ block_shape = <<1, 1>>
  /\ i = 0
  /\ j = 0
  /\ block_mask = << >>
  /\ mask_types_finder = << >>
  /\ mask_data = << >>
  /\ next_mask_type_idx = 0
  /\ next_i = 0
  /\ next_j = 0
  /\ prefetch_mask = << >>
  /\ prefetch_i = << >>
  /\ prefetch_j = << >>
  /\ num_k = 0
  /\ pid = <<0, 0, 0>>
  /\ x_idx = <<0, 0>>
  /\ y_idx = <<0, 0>>
  /\ mask_idx = <<0, 0, 0>>
  /\ o_idx = <<0, 0>>
  /\ accum_scratch = << >>
  /\ o_ref = << >>

\* indices = jnp.where(block_mask): the coordinates of the non-zero blocks in
\* row-major order; Where(S)[n] is the n-th of them
RowMajorBefore(c, d) == c[1] < d[1] \/ (c[1] = d[1] /\ c[2] < d[2])
Where(S) ==
  [n \in 1..Cardinality(S) |->
     CHOOSE c \in S : Cardinality({d \in S : RowMajorBefore(d, c)}) = n - 1]

\* block_data = jax.random.uniform(blocks_key, (num_blocks, blk_M, blk_N)) and
\* Y = jax.random.uniform(jax.random.key(1), (K, N)): two fixed arrays
X_blocks(b) == 1 + b
dsd_Y(k, c, N) == 2 + k * N + c

\* num_blocks = X_blocks.shape[0]
num_blocks == Len(indices_i)

dsd_x_map(gj, blk_idx, blk_idxs_i, blk_idxs_k) == <<blk_idx, 0, 0>>
dsd_y_map(gj, blk_idx, blk_idxs_i, blk_idxs_k) == <<blk_idxs_k[blk_idx + 1], gj>>
dsd_o_map(gj, blk_idx, blk_idxs_i, blk_idxs_k) == <<blk_idxs_i[blk_idx + 1], gj>>

Maximum(a, b) == IF a > b THEN a ELSE b
Minimum(a, b) == IF a < b THEN a ELSE b

\* ref[n] of a scalar-prefetch array: the values the read can give; a read
\* past the end of the array gives an unspecified value
ReadRef(ref, n) ==
  IF n \in 0..(Len(ref) - 1) THEN {ref[n + 1]} ELSE -1..MaxBlockGrid

\* the indices at which one kernel step reads idxs_i_ref
prev_idx(blk_idx) == Maximum(blk_idx - 1, 0)
next_idx(blk_idx) == Minimum(blk_idx + 1, num_blocks)
ReadIndices(blk_idx) == {blk_idx, prev_idx(blk_idx), next_idx(blk_idx)}

\* faulty variant: the first grid step of a column is not recognised
is_start_never(blk_idx) == FALSE
\* is_start = blk_idx == 0
is_start(blk_idx) == blk_idx = 0

\* the kernel body at grid step p = <<j, blk_idx>>; buf is the content of the
\* output block buffer when the step starts
dsd_kernel(p, buf) ==
  LET blk_idx == p[2]
      xi == dsd_x_map(p[1], blk_idx, indices_i, indices_k)
      yi == dsd_y_map(p[1], blk_idx, indices_i, indices_k)
      is_end == blk_idx = num_blocks - 1
  IN  \E cur \in ReadRef(indices_i, blk_idx),
         prev \in ReadRef(indices_i, prev_idx(blk_idx)),
         nxt \in ReadRef(indices_i, next_idx(blk_idx)) :
        LET changed_blocks == cur # prev
            next_block_change == cur # nxt
            a0 == IF is_start(blk_idx) \/ changed_blocks THEN 0 ELSE dsd_accum
            a1 == a0 + X_blocks(xi[1]) * dsd_Y(yi[1], yi[2], dsd_N)
        IN  /\ zeroed' = (is_start(blk_idx) \/ changed_blocks)
            /\ dsd_accum' = a1
            /\ wrote' = (is_end \/ next_block_change)
            /\ dsd_o_ref' = IF is_end \/ next_block_change THEN a1 ELSE buf

\* zeros = jnp.zeros((M, N)), aliased to the output
InitDsd ==
  /\ MmIdle
  /\ pc = "dsd"
  /\ \E Mb \in 1..MaxBlockGrid, Kb \in 1..MaxBlockGrid, Nb \in 1..MaxJ :
       \E S \in (SUBSET Cells(Mb, Kb)) \ {{}} :
         /\ dsd_M = Mb
         /\ dsd_N = Nb
         /\ indices_i = [n \in 1..Cardinality(S) |-> Where(S)[n][1]]
         /\ indices_k = [n \in 1..Cardinality(S) |-> Where(S)[n][2]]
         /\ result = Zeros(Mb, Nb)
  /\ dsd_pid = <<0, 0>>
  /\ dsd_accum = 0
  /\ dsd_o_ref = 0
  /\ dsd_o_idx = <<0, 0>>
  /\ zeroed = FALSE
  /\ wrote = FALSE

\* the output block buffer is copied to the output array when the grid moves
\* to another output block, and after the last grid step
WriteBack(res, oi, v) == [res EXCEPT ![oi[1]][oi[2]] = v]

\* first grid step: the output block buffer starts with unspecified content
DsdLaunch ==
  /\ pc = "dsd"
  /\ pc' = "dsd_kernel"
  /\ dsd_pid' = <<0, 0>>
  /\ dsd_o_idx' = dsd_o_map(0, 0, indices_i, indices_k)
  /\ \E buf \in {0, -1} : dsd_kernel(<<0, 0>>, buf)
  /\ UNCHANGED <<dsd_M, dsd_N, indices_i, indices_k, result>>
  /\ UNCHANGED mm_vars

\* the next grid step of grid (N // blk_N, num_blocks), blk_idx varying fastest
DsdStep ==
  /\ pc = "dsd_kernel"
  /\ LET p == IF dsd_pid[2] + 1 < num_blocks
              THEN <<dsd_pid[1], dsd_pid[2] + 1>>
              ELSE <<dsd_pid[1] + 1, 0>>
         oi == dsd_o_map(p[1], p[2], indices_i, indices_k)
     IN  /\ p[1] < dsd_N
         /\ dsd_pid' = p
         /\ dsd_o_idx' = oi
         /\ IF oi = dsd_o_idx
            THEN /\ result' = result
                 /\ dsd_kernel(p, dsd_o_ref)
            ELSE /\ result' = WriteBack(result, dsd_o_idx, dsd_o_ref)
                 /\ \E buf \in {0, -1, dsd_o_ref} : dsd_kernel(p, buf)
  /\ UNCHANGED <<pc, dsd_M, dsd_N, indices_i, indices_k>>
  /\ UNCHANGED mm_vars

\* after the last grid step the kernel call returns the output array
DsdFinish ==
  /\ pc = "dsd_kernel"
  /\ dsd_pid = <<dsd_N - 1, num_blocks - 1>>
  /\ result' = WriteBack(result, dsd_o_idx, dsd_o_ref)
  /\ pc' = "dsd_done"
  /\ UNCHANGED <<dsd_M, dsd_N, indices_i, indices_k, dsd_pid, dsd_accum,
                 dsd_o_ref, dsd_o_idx, zeroed, wrote>>
  /\ UNCHANGED mm_vars

NextDsd ==
  \/ DsdLaunch
  \/ DsdStep
  \/ DsdFinish

SpecDsd == InitDsd /\ [][NextDsd]_vars

(***************************************************************************)
(* Vocabulary of the properties, read off the inputs and the results        *)
(***************************************************************************)
NumTileRows == GridRows(mask, block_shape)
NumTileCols == GridCols(mask, block_shape)
Tiles == (0..(NumTileRows - 1)) \X (0..(NumTileCols - 1))

Divisible ==
  /\ Rows(mask) % block_shape[1] = 0
  /\ Cols(mask) % block_shape[2] = 0

\* sparsify_mask has returned its five results
Returned == pc = "done"
\* sparsify_mask has ended, with a result or with an exception
Ended == pc \in {"done", "error"}

\* the mask elements of tile t, as positions of the mask
TileOnes(t) ==
  {p \in mask.ones :
     /\ t[1] * block_shape[1] <= p[1] /\ p[1] < (t[1] + 1) * block_shape[1]
     /\ t[2] * block_shape[2] <= p[2] /\ p[2] < (t[2] + 1) * block_shape[2]}
\* the content of tile t, as a block
TileContent(t) ==
  [shape |-> block_shape,
   ones  |-> {<<p[1] - t[1] * block_shape[1], p[2] - t[2] * block_shape[2]>> :
                p \in TileOnes(t)}]

ActiveFlag(t) == block_mask[t[1]][t[2]] # 0
NextActive(t) == <<prefetch_i[t[1]][t[2]], prefetch_j[t[1]][t[2]]>>
ContentIndex(t) == prefetch_mask[t[1]][t[2]]
DedupEntry(k) == mask_data[k + 1]
Sentinel == <<NumTileRows - 1, NumTileCols - 1>>

\* u comes after t in ascending row-major order
After(t, u) == u[1] > t[1] \/ (u[1] = t[1] /\ u[2] > t[2])
FlaggedAfter(t) == {u \in Tiles : After(t, u) /\ ActiveFlag(u)}
NonzeroAfter(t) == {u \in Tiles : After(t, u) /\ TileOnes(u) # {}}
First(S) == CHOOSE u \in S : \A w \in S : w = u \/ After(u, w)

SelfReferential(t) == ActiveFlag(t) /\ NextActive(t) = t
PointsToActive(t) ==
  /\ ~ActiveFlag(t)
  /\ NextActive(t) \in Tiles
  /\ ActiveFlag(NextActive(t))
TrailingSentinel(t) ==
  /\ ~ActiveFlag(t)
  /\ FlaggedAfter(t) = {}
  /\ NextActive(t) = Sentinel

(***************************************************************************)
(* C1.  Coverage, as stated: with at least one active tile and divisible    *)
(* dimensions, every tile is either active and self-referential, or         *)
(* inactive with Next* the coordinate of an active tile.                    *)
(* Refuted: an inactive tile with no active tile after it gets the          *)
(* sentinel, which need not be active.                                      *)
(***************************************************************************)
C1_CoverageAsStated ==
  (Returned /\ Divisible /\ (\E u \in Tiles : ActiveFlag(u)))
    => \A t \in Tiles : SelfReferential(t) \/ PointsToActive(t)

(***************************************************************************)
(* C1 amended.  With at least one active tile and divisible dimensions,     *)
(* every tile satisfies exactly one of: (a) active and self-referential;    *)
(* (b) inactive, an active tile follows it in row-major order, and Next*    *)
(* is the coordinate of an active tile; (c) inactive, no active tile        *)
(* follows it, and Next* is the sentinel (numTileRows-1, numTileCols-1).    *)
(***************************************************************************)
C1_Coverage ==
  (Returned /\ Divisible /\ (\E u \in Tiles : ActiveFlag(u)))
    => \A t \in Tiles :
         Cardinality({k \in 1..3 :
            \/ k = 1 /\ SelfReferential(t)
            \/ k = 2 /\ FlaggedAfter(t) # {} /\ PointsToActive(t)
            \/ k = 3 /\ TrailingSentinel(t)}) = 1

\* a result in which all three cases occur, the sentinel tile being inactive
C1_Witness ==
  /\ Returned /\ Divisible
  /\ \E t \in Tiles : SelfReferential(t)
  /\ \E t \in Tiles : FlaggedAfter(t) # {} /\ PointsToActive(t)
  /\ \E t \in Tiles : TrailingSentinel(t) /\ ~ActiveFlag(Sentinel)

(***************************************************************************)
(* C2.  All-zero mask: sparsify_mask returns a result, with every           *)
(* ActiveFlag false, an empty DedupTable and every Next* equal to the       *)
(* sentinel.  Refuted: jnp.stack of the empty list raises.                  *)
(***************************************************************************)
C2_AllZeroReturns ==
  (Ended /\ Divisible /\ mask.ones = {})
    => /\ Returned
       /\ mask_data = << >>
       /\ \A t \in Tiles : ~ActiveFlag(t) /\ NextActive(t) = Sentinel

(***************************************************************************)
(* C3.  Divisibility precondition: on a mask whose dimensions are not       *)
(* multiples of the block shape sparsify_mask returns no result and         *)
(* records no partial tile.  Refuted: there is no check, the grid is        *)
(* floored and partial blocks are recorded.                                 *)
(***************************************************************************)
C3_NonDivisibleFails ==
  ~Divisible
    => /\ ~Returned
       /\ Ended => \A n \in 1..Len(mask_data) : mask_data[n].shape = block_shape

(***************************************************************************)
(* C4.  Dedup content correctness: for every active tile the DedupTable     *)
(* entry at its ContentIndex equals the tile's content.  Refuted: two       *)
(* distinct contents with the same str() key share one entry.               *)
(***************************************************************************)
C4_DedupContent ==
  (Returned /\ Divisible)
    => \A t \in Tiles :
         TileOnes(t) # {}
           => /\ ContentIndex(t) \in 0..(Len(mask_data) - 1)
              /\ DedupEntry(ContentIndex(t)) = TileContent(t)

(***************************************************************************)
(* C5.  Next-active semantics: for every inactive tile followed by an       *)
(* active tile in ascending row-major order, Next* is the coordinate of     *)
(* the first active tile after it and ContentIndex is that tile's           *)
(* ContentIndex.                                                            *)
(***************************************************************************)
C5_NextActive ==
  Returned
    => \A t \in Tiles :
         (TileOnes(t) = {} /\ NonzeroAfter(t) # {})
           => /\ NextActive(t) = First(NonzeroAfter(t))
              /\ ContentIndex(t) = ContentIndex(First(NonzeroAfter(t)))

\* an inactive tile whose next active tile is in a later row and an earlier
\* column, with an active tile of different content further on
C5_Witness ==
  /\ Returned
  /\ \E t \in Tiles :
       /\ TileOnes(t) = {} /\ NonzeroAfter(t) # {}
       /\ First(NonzeroAfter(t))[1] > t[1]
       /\ First(NonzeroAfter(t))[2] < t[2]
       /\ NextActive(t) = First(NonzeroAfter(t))
       /\ \E u \in NonzeroAfter(t) : ContentIndex(u) # ContentIndex(t)

(***************************************************************************)
(* C6.  Active tiles are self-referential: every tile with ActiveFlag true  *)
(* has Next* = (i, j) and a ContentIndex that is the DedupTable index       *)
(* registered for the tile's own content.  Refuted through C4: with a       *)
(* colliding key the index is the one registered for another content.       *)
(***************************************************************************)
C6_ActiveSelfReferential ==
  Returned
    => \A t \in Tiles :
         ActiveFlag(t)
           => /\ NextActive(t) = t
              /\ \E k \in 0..(Len(mask_data) - 1) :
                   /\ ContentIndex(t) = k
                   /\ DedupEntry(k) = TileContent(t)

\* the grid step of the masked matmul and the tile its index maps address
StepTile == <<pid[1], pid[2]>>
Addressed == <<x_idx[1], y_idx[2]>>

(***************************************************************************)
(* C7.  Prefetch never targets a skipped tile, as stated: at every grid     *)
(* step (i, j, k) of the masked matmul, for a mask with an active tile,     *)
(* the tile addressed through x_map, y_map and mask_map is active.          *)
(* Refuted at an inactive (i, j) with no active tile after it.              *)
(***************************************************************************)
C7_PrefetchActiveAsStated ==
  (pc = "kernel" /\ Divisible /\ (\E u \in Tiles : ActiveFlag(u)))
    => /\ Addressed \in Tiles
       /\ ActiveFlag(Addressed)

(***************************************************************************)
(* C7 amended.  At every grid step (i, j, k): if (i, j) is active or an     *)
(* active tile follows it in row-major order, the tile addressed through    *)
(* x_map and y_map is an active tile and mask_map addresses that tile's     *)
(* ContentIndex; otherwise the tile addressed is the sentinel tile          *)
(* (numTileRows-1, numTileCols-1).                                          *)
(***************************************************************************)
C7_PrefetchActive ==
  (pc = "kernel" /\ Divisible /\ (\E u \in Tiles : ActiveFlag(u)))
    => IF ActiveFlag(StepTile) \/ FlaggedAfter(StepTile) # {}
       THEN /\ Addressed \in Tiles
            /\ ActiveFlag(Addressed)
            /\ mask_idx = <<ContentIndex(Addressed), 0, 0>>
       ELSE Addressed = Sentinel

\* a grid step at an inactive tile whose maps address an active tile of a
\* later row, at a k step past the first
C7_Witness ==
  /\ pc = "kernel" /\ Divisible
  /\ ~ActiveFlag(StepTile)
  /\ Addressed \in Tiles /\ ActiveFlag(Addressed)
  /\ Addressed[1] > StepTile[1]
  /\ pid[3] > 0

(***************************************************************************)
(* C8.  Next* stay inside the grid: with at least one active tile and       *)
(* divisible dimensions, every inactive tile's NextActiveRow is in          *)
(* 0..numTileRows-1 and its NextActiveCol is in 0..numTileCols-1.           *)
(***************************************************************************)
C8_NextInGrid ==
  (Returned /\ Divisible /\ (\E u \in Tiles : TileOnes(u) # {}))
    => \A t \in Tiles :
         TileOnes(t) = {}
           => /\ prefetch_i[t[1]][t[2]] \in 0..(NumTileRows - 1)
              /\ prefetch_j[t[1]][t[2]] \in 0..(NumTileCols - 1)

\* inactive tiles before and after the last active tile of a grid of
\* several rows and columns
C8_Witness ==
  /\ Returned /\ Divisible
  /\ NumTileRows > 1 /\ NumTileCols > 1
  /\ \E t \in Tiles : TileOnes(t) = {} /\ NonzeroAfter(t) # {}
  /\ \E t \in Tiles :
       /\ TileOnes(t) = {} /\ NonzeroAfter(t) = {}
       /\ \E u \in Tiles : TileOnes(u) # {}

(***************************************************************************)
(* C9.  ActiveFlag definition: for every tile (i, j) of the grid,           *)
(* ActiveFlag[i, j] is true iff some element of the mask in rows            *)
(* i*blockRows..(i+1)*blockRows-1 and columns                               *)
(* j*blockCols..(j+1)*blockCols-1 is non-zero.                              *)
(***************************************************************************)
C9_ActiveFlag ==
  Returned
    => \A t \in Tiles : (block_mask[t[1]][t[2]] # 0) <=> (TileOnes(t) # {})

\* an active tile whose first element is zero, next to an inactive tile
C9_Witness ==
  /\ Returned
  /\ \E t \in Tiles :
       /\ ActiveFlag(t)
       /\ <<t[1] * block_shape[1], t[2] * block_shape[2]>> \notin mask.ones
  /\ \E t \in Tiles : ~ActiveFlag(t)

(***************************************************************************)
(* C10.  No duplicates in DedupTable: no two entries of the DedupTable at   *)
(* different indices have equal content.                                    *)
(***************************************************************************)
C10_NoDuplicates ==
  Returned
    => \A a \in 1..Len(mask_data) : \A b \in 1..Len(mask_data) :
         a # b => mask_data[a] # mask_data[b]

\* two entries in the table, one of them used by two different tiles
C10_Witness ==
  /\ Returned
  /\ Len(mask_data) >= 2
  /\ \E t \in Tiles : \E u \in Tiles :
       /\ t # u
       /\ ActiveFlag(t) /\ ActiveFlag(u)
       /\ TileContent(t) = TileContent(u)
       /\ ContentIndex(t) = ContentIndex(u)

(***************************************************************************)
(* C11.  All-active case: when every tile contains a non-zero element,      *)
(* every ActiveFlag is true and the DedupTable has as many entries as the   *)
(* mask has distinct tile contents, at most the number of tiles.            *)
(* Refuted through C4: contents with one str() key share an entry.          *)
(***************************************************************************)
C11_AllActive ==
  (Returned /\ Divisible /\ (\A t \in Tiles : TileOnes(t) # {}))
    => /\ \A t \in Tiles : ActiveFlag(t)
       /\ Len(mask_data) = Cardinality({TileContent(t) : t \in Tiles})
       /\ Len(mask_data) <= Cardinality(Tiles)

(***************************************************************************)
(* C12.  Scenario: for the 4x4 mask [[1,0,0,0],[0,0,0,0],[0,0,1,1],         *)
(* [0,0,1,1]] with block (2,2), tiles (0,0) and (1,1) are active, (0,1)     *)
(* and (1,0) inactive, the DedupTable has 2 entries, both inactive tiles    *)
(* have Next* = (1,1) and ContentIndex 0, tile (1,1) has ContentIndex 0     *)
(* and tile (0,0) ContentIndex 1.                                           *)
(***************************************************************************)
ScenarioMask ==
  [shape |-> <<4, 4>>, ones |-> {<<0, 0>>, <<2, 2>>, <<2, 3>>, <<3, 2>>, <<3, 3>>}]
IsScenario == mask = ScenarioMask /\ block_shape = <<2, 2>>

C12_Scenario ==
  (Returned /\ IsScenario)
    => /\ block_mask = (0 :> (0 :> 1 @@ 1 :> 0) @@ 1 :> (0 :> 0 @@ 1 :> 1))
       /\ Len(mask_data) = 2
       /\ NextActive(<<0, 1>>) = <<1, 1>> /\ ContentIndex(<<0, 1>>) = 0
       /\ NextActive(<<1, 0>>) = <<1, 1>> /\ ContentIndex(<<1, 0>>) = 0
       /\ ContentIndex(<<1, 1>>) = 0
       /\ ContentIndex(<<0, 0>>) = 1

C12_Witness == Returned /\ IsScenario /\ Len(mask_data) = 2

\* the loop of sparsify_mask has run to its end
LoopEnded == pc \in {"stack", "done", "error"}

C15_ForwardBothAxesAsStated ==
  Returned
    => \A t \in Tiles :
         (TileOnes(t) = {} /\ NonzeroAfter(t) # {})
           => /\ NextActive(t)[1] >= t[1]
              /\ NextActive(t)[2] >= t[2]

(***************************************************************************)
(* C15 amended.  For every inactive tile (i,j) whose Next* were carried     *)
(* from an active tile (a,b), that tile comes after (i,j) in ascending      *)
(* row-major order: a > i, or a = i and b > j.                              *)
(***************************************************************************)
C15_ForwardRowMajor ==
  Returned
    => \A t \in Tiles :
         (TileOnes(t) = {} /\ NonzeroAfter(t) # {})
           => \/ NextActive(t)[1] > t[1]
              \/ NextActive(t)[1] = t[1] /\ NextActive(t)[2] > t[2]

\* carried tiles in the same row and in a later row at an earlier column
C15_Witness ==
  /\ Returned
  /\ \E t \in Tiles :
       /\ TileOnes(t) = {} /\ NonzeroAfter(t) # {}
       /\ NextActive(t)[1] = t[1] /\ NextActive(t)[2] > t[2]
  /\ \E t \in Tiles :
       /\ TileOnes(t) = {} /\ NonzeroAfter(t) # {}
       /\ NextActive(t)[1] > t[1] /\ NextActive(t)[2] < t[2]

\* the n-th tile of the traversal (n = 0 first): descending row, and
\* descending column within a row
DescTile(n) == <<NumTileRows - 1 - (n \div NumTileCols),
                 NumTileCols - 1 - (n % NumTileCols)>>
NumTiles == NumTileRows * NumTileCols

\* the distinct non-zero tile contents among the first n tiles of the
\* traversal, in the order in which they are first met
RECURSIVE FirstSeen(_)
FirstSeen(n) ==
  IF n = 0 THEN << >>
  ELSE LET prev == FirstSeen(n - 1)
           t == DescTile(n - 1)
       IN  IF TileOnes(t) = {} \/ (\E m \in 1..Len(prev) : prev[m] = TileContent(t))
           THEN prev
           ELSE Append(prev, TileContent(t))

(***************************************************************************)
(* C16.  DedupTable order: the entry at index k of the DedupTable is the    *)
(* k-th distinct active tile content met in the descending traversal (so    *)
(* index 0 holds the content of the last active tile in ascending           *)
(* row-major order).  Refuted through C4: a content whose str() key         *)
(* collides with an earlier one gets no entry, which shifts the later ones. *)
(***************************************************************************)
C16_FirstSeenOrder ==
  (Returned /\ Divisible)
    => \A k \in 0..(Len(mask_data) - 1) :
         /\ k < Len(FirstSeen(NumTiles))
         /\ DedupEntry(k) = FirstSeen(NumTiles)[k + 1]

(***************************************************************************)
(* Suffix scan of the concurrency section of the design: the element of a   *)
(* tile is its coordinate if it is active and the identity otherwise, the   *)
(* combine operation keeps the most recent active tile.                     *)
(***************************************************************************)
ScanIdentity == <<NumTileRows - 1, NumTileCols - 1>>
Combine(a, b) == IF b = ScanIdentity THEN a ELSE b
ScanElem(n) == IF TileOnes(DescTile(n)) # {} THEN DescTile(n) ELSE ScanIdentity
\* reduction of the elements lo..hi-1 of the traversal as a balanced tree
RECURSIVE Reduce(_, _)
Reduce(lo, hi) ==
  IF hi - lo = 1 THEN ScanElem(lo)
  ELSE LET mid == lo + ((hi - lo) \div 2)
       IN  Combine(Reduce(lo, mid), Reduce(mid, hi))
SuffixScan(n) == Reduce(0, n + 1)

C19_OnePastNoOp ==
  [][(pc = "loop" /\ Divisible /\ (i = NumTileRows \/ j = NumTileCols))
       => /\ Rows(MaskBlock(mask, block_shape, i, j))
               * Cols(MaskBlock(mask, block_shape, i, j)) = 0
          /\ ~AnyNonzero(MaskBlock(mask, block_shape, i, j))
          /\ UNCHANGED <<next_i, next_j, next_mask_type_idx,
                         mask_types_finder, mask_data,
                         block_mask, prefetch_mask, prefetch_i, prefetch_j>>]_vars

\* the state right after the iteration one past the columns of a row, in a
\* grid of several rows, once an active tile has been recorded
C19_Witness ==
  /\ pc = "loop" /\ Divisible
  /\ NumTileRows > 1 /\ NumTileCols > 0
  /\ i < NumTileRows - 1
  /\ j = NumTileCols - 1
  /\ mask_data # << >>
  /\ next_i > i

(***************************************************************************)
(* C20.  ContentIndex is always a valid DedupTable index: for every mask    *)
(* with at least one active tile, every ContentIndex[i,j], of active and    *)
(* inactive tiles alike, lies in 0..len(DedupTable)-1, and the              *)
(* ContentIndex values of the active tiles are exactly 0..len-1.            *)
(***************************************************************************)
C20_ContentIndexValid ==
  (Returned /\ (\E u \in Tiles : TileOnes(u) # {}))
    => /\ \A t \in Tiles : ContentIndex(t) \in 0..(Len(mask_data) - 1)
       /\ {ContentIndex(t) : t \in {u \in Tiles : TileOnes(u) # {}}}
            = 0..(Len(mask_data) - 1)

\* a table of two entries, an inactive tile carrying index 1 and a trailing
\* inactive tile
C20_Witness ==
  /\ Returned
  /\ Len(mask_data) >= 2
  /\ \E t \in Tiles : TileOnes(t) = {} /\ ContentIndex(t) = 1
  /\ \E t \in Tiles : TileOnes(t) = {} /\ NonzeroAfter(t) = {}

(***************************************************************************)
(* Vocabulary of the masked matmul result.                                  *)
(***************************************************************************)
\* sum over k = 0..upto of X[r, k] * Y[k, c]
RECURSIVE XYSum(_, _, _)
XYSum(r, c, upto) ==
  IF upto < 0 THEN 0
  ELSE X(r, upto, num_k) * Y(upto, c, Cols(mask)) + XYSum(r, c, upto - 1)

\* block (t[1], t[2]) of sum over k = 0..upto of X[:, k] * Y[k, :]
ProductTile(t, upto) ==
  [r \in 0..(block_shape[1] - 1) |->
     [c \in 0..(block_shape[2] - 1) |->
        XYSum(t[1] * block_shape[1] + r, t[2] * block_shape[2] + c, upto)]]

\* the content of tile t of the mask, as an array of 0 and 1
MaskTile(t) ==
  [r \in 0..(block_shape[1] - 1) |->
     [c \in 0..(block_shape[2] - 1) |->
        IF <<r, c>> \in TileContent(t).ones THEN 1 ELSE 0]]

ZeroTile == Zeros(block_shape[1], block_shape[2])

(***************************************************************************)
(* C18.  Masked matmul result per tile: at every grid step (i, j, k) the    *)
(* accumulator holds nothing but the products of tile (i, j) up to k (zero  *)
(* for a tile with block_mask 0, so both references were zeroed at k = 0    *)
(* and nothing is carried over from the previous tile), and after the last  *)
(* k step the output block is all zeros if block_mask[i, j] is 0 and the    *)
(* mask tile's content times the sum over all k of X[i, k] * Y[k, j]        *)
(* otherwise.                                                               *)
(***************************************************************************)
C18_MaskedMatmul ==
  pc = "kernel"
    => /\ accum_scratch = IF ActiveFlag(StepTile)
                          THEN ProductTile(StepTile, pid[3])
                          ELSE ZeroTile
       /\ pid[3] = 0 /\ num_k > 1 => o_ref = ZeroTile
       /\ pid[3] = num_k - 1
            => o_ref = IF ActiveFlag(StepTile)
                       THEN Mul(MaskTile(StepTile), ProductTile(StepTile, num_k - 1))
                       ELSE ZeroTile

(***************************************************************************)
(* Vocabulary of the sparse @ dense matmul.                                 *)
(***************************************************************************)
BlockIdxs == 0..(num_blocks - 1)
RowOf(b) == indices_i[b + 1]

\* equal block row indices are contiguous
Grouped ==
  \A a, b, c \in BlockIdxs : (a < b /\ b < c /\ RowOf(a) = RowOf(c)) => RowOf(b) = RowOf(a)

FirstOfRun(b) == b = 0 \/ RowOf(b - 1) # RowOf(b)
LastOfRun(b) == b = num_blocks - 1 \/ RowOf(b + 1) # RowOf(b)

\* sum over the blocks b in B of X_blocks[b] * Y[k-block of b, column block c]
RECURSIVE BlockSum(_, _)
BlockSum(B, c) ==
  IF B = {} THEN 0
  ELSE LET b == CHOOSE x \in B : TRUE
       IN  X_blocks(b) * dsd_Y(indices_k[b + 1], c, dsd_N) + BlockSum(B \ {b}, c)

\* the blocks of the run of b up to b
RunUpTo(b) ==
  {a \in BlockIdxs : a <= b /\ \A x \in a..b : RowOf(x) = RowOf(b)}

(***************************************************************************)
(* C13.  Accumulator protocol of the sparse @ dense kernel: with the block  *)
(* row indices grouped by row, at every grid step (j, blk_idx) the          *)
(* accumulator is zeroed exactly when blk_idx is the first block of a run   *)
(* of equal row indices and written to the output block exactly when it is  *)
(* the last block of a run, it holds the sum of the products of the run up  *)
(* to blk_idx, and when the kernel has finished the output block (r, j) of  *)
(* every visited row r is the sum, over all blocks with row index r, of the *)
(* block times Y[k-block, j].                                               *)
(***************************************************************************)
C13_AccumulatorProtocol ==
  Grouped
    => /\ pc = "dsd_kernel"
            => /\ zeroed <=> FirstOfRun(dsd_pid[2])
               /\ wrote <=> LastOfRun(dsd_pid[2])
               /\ dsd_accum = BlockSum(RunUpTo(dsd_pid[2]), dsd_pid[1])
               /\ wrote => dsd_o_ref = dsd_accum
       /\ pc = "dsd_done"
            => \A b \in BlockIdxs : \A c \in 0..(dsd_N - 1) :
                 result[RowOf(b)][c]
                   = BlockSum({a \in BlockIdxs : RowOf(a) = RowOf(b)}, c)

\* a finished run over two column blocks with a run of two blocks and a
\* second row
C13_Witness ==
  /\ pc = "dsd_done"
  /\ dsd_N > 1
  /\ \E a, b \in BlockIdxs : a # b /\ RowOf(a) = RowOf(b)
  /\ \E a, b \in BlockIdxs : RowOf(a) # RowOf(b)

(***************************************************************************)
(* C21.  In-bounds reads of the row-index array in dsd_kernel: at every     *)
(* inner grid step blk_idx in 0..num_blocks-1, every index used to read     *)
(* idxs_i_ref (blk_idx, max(blk_idx-1, 0) and min(blk_idx+1, num_blocks))   *)
(* lies in 0..num_blocks-1, the valid range of the array.                   *)
(***************************************************************************)
C21_ReadsInBounds ==
  pc = "dsd_kernel" => ReadIndices(dsd_pid[2]) \subseteq 0..(num_blocks - 1)

=============================================================================
